---- MODULE Spec2Model ----
(***************************************************************************)
(* The Assembunny interpreter of src/utils/bespoke/assembunnyinterpreter.rs *)
(* as a state machine: the registers, the program counter and the program  *)
(* (rewritten in place by tgl), driven by a caller that presets registers  *)
(* and calls execute.  One action per match arm of the execute loop.       *)
(***************************************************************************)
EXTENDS Integers, Sequences, FiniteSets, TLC

\* ---------------------------------------------------------------- bounds
\* Longest program loaded.
MaxLen == 3
\* Loop iterations of execute explored over the life of one interpreter.
MaxSteps == 4
\* Loop iterations explored for the two example programs of the puzzle text.
MaxExampleSteps == 6
\* Lines of a program text handed to the loader.
MaxLines == 3

\* The registers the constructor creates.
RegisterNames == {"a", "b", "c", "d"}
\* Operand tokens of the loaded programs and values the caller presets.
OperandRegisters == {"a"}
Literals == {-1, 1}
PresetValues == {0, 2}

\* ---------------------------------------------------------------- data
\* enum OpArgument { Register { register }, Value { value } }
Register(r) == [kind |-> "Register", register |-> r, value |-> 0]
Value(v) == [kind |-> "Value", register |-> "-", value |-> v]
NoArgument == [kind |-> "None", register |-> "-", value |-> 0]

\* enum Operation; the two operand slots in declaration order.
Cpy(arg, register) == [op |-> "Cpy", first |-> arg, second |-> register]
Inc(register) == [op |-> "Inc", first |-> register, second |-> NoArgument]
Dec(register) == [op |-> "Dec", first |-> register, second |-> NoArgument]
Jnz(check, delta) == [op |-> "Jnz", first |-> check, second |-> delta]
Tgl(delta) == [op |-> "Tgl", first |-> delta, second |-> NoArgument]

RegisterOperands == {Register(r) : r \in OperandRegisters}
Operands == RegisterOperands \cup {Value(v) : v \in Literals}

\* The operations the five regular expressions of the loader let through.
LoadableOperations ==
    {Cpy(x, r) : x \in Operands, r \in RegisterOperands}
        \cup {Inc(r) : r \in RegisterOperands}
        \cup {Dec(r) : r \in RegisterOperands}
        \cup {Jnz(x, y) : x \in Operands, y \in Operands}
        \cup {Tgl(x) : x \in Operands}

Programs == UNION {[1..n -> LoadableOperations] : n \in 1..MaxLen}

Abs(x) == IF x < 0 THEN -x ELSE x

\* ---------------------------------------------------------------- state
VARIABLES
    registers,   \* self.registers
    pc,          \* self.pc
    operations,  \* self.operations
    halt,        \* the local flag of execute
    ctl,         \* "caller", "execute" (inside the loop) or "panic"
    result,      \* what the last execute call returned: "none" or "Ok"
    parsed,      \* history: the program as loaded
    toggles,     \* history: rewrites done at each index
    halted,      \* the halted status a caller queries after execute
    fetched,     \* history: the index and operation of the last loop iteration
    steps,       \* history: loop iterations so far
    budget,      \* loop iterations this exploration allows
    text,        \* the raw input handed to new, a sequence of lines
    loaded,      \* "unbuilt", "ok" (new returned Ok) or "err" (ParseAssembunnyError)
    reply,       \* what the last get_register or set_register call returned
    other,       \* the second interpreter instance once the caller has cloned
    active       \* which instance the caller operates: "source" or "clone"

\* What the interpreter's own operations never touch.
aux == <<budget, text, loaded, reply, other, active>>

vars == <<registers, pc, operations, halt, ctl, result, parsed, toggles, fetched, steps,
          budget, text, loaded, reply, other, active, halted>>

NoReply == [call |-> "none", name |-> "-", ok |-> TRUE, value |-> 0, at |-> 0]
NoInstance == [exists |-> FALSE]

NotFetched == [pc |-> -1, op |-> [op |-> "None", first |-> NoArgument, second |-> NoArgument]]

\* AssembunnyInterpreter::new on a well-formed text.
Init ==
    /\ operations \in Programs
    /\ parsed = operations
    /\ registers = [r \in RegisterNames |-> 0]
    /\ pc = 0
    /\ halt = FALSE
    /\ halted = FALSE
    /\ ctl = "caller"
    /\ result = "none"
    /\ toggles = [i \in 1..Len(operations) |-> 0]
    /\ fetched = NotFetched
    /\ steps = 0
    /\ budget = MaxSteps
    /\ text = <<>>
    /\ loaded = "ok"
    /\ reply = NoReply
    /\ other = NoInstance
    /\ active = "source"

\* ---------------------------------------------------------------- helpers
\* Variant: a register operand is read as the value the register was built with.
get_op_argument_value_Initial(regs, arg) ==
    IF arg.kind = "Value" THEN arg.value ELSE 0

get_op_argument_value(regs, arg) ==
    IF arg.kind = "Value" THEN arg.value ELSE regs[arg.register]

\* Variant: a literal destination is taken for register a.
get_op_argument_register_Lenient(arg) ==
    IF arg.kind = "Register"
        THEN [ok |-> TRUE, register |-> arg.register]
        ELSE [ok |-> TRUE, register |-> "a"]

get_op_argument_register(arg) ==
    IF arg.kind = "Register"
        THEN [ok |-> TRUE, register |-> arg.register]
        ELSE [ok |-> FALSE, register |-> "-"]

\* self.registers.get(register) finds an entry: the unwrap of a lookup succeeds.
\* A literal needs no lookup.
Resolves(regs, arg) == arg.kind = "Value" \/ arg.register \in DOMAIN regs

\* self.registers.insert(register, value): the entry is created when it is missing.
Insert(regs, register, value) ==
    [r \in DOMAIN regs \cup {register} |-> IF r = register THEN value ELSE regs[r]]

\* An unwrap of None: the thread panics where it stands.
Panics ==
    /\ ctl' = "panic"
    /\ UNCHANGED <<registers, pc>>

\* The operation at self.pc (0-based) of the current program.
CurrentOperation == operations[pc + 1]

\* ---------------------------------------------------------------- caller
set_register(register, value) ==
    /\ ctl = "caller"
    /\ register \in DOMAIN registers
    /\ registers' = [registers EXCEPT ![register] = value]
    /\ UNCHANGED <<pc, operations, halt, halted, ctl, result, parsed, toggles, fetched, steps>>
    /\ UNCHANGED aux

ExecuteCall ==
    /\ ctl = "caller"
    /\ loaded = "ok"
    /\ ctl' = "execute"
    /\ halt' = FALSE
    /\ result' = "none"
    /\ UNCHANGED <<registers, pc, operations, halted, parsed, toggles, fetched, steps>>
    /\ UNCHANGED aux

\* The two halt conditions: the loop was told to stop by a jump out of the
\* instruction space, or the program counter is at or past the end.
HaltCondition == halt \/ pc >= Len(operations)

\* is_halted(), the query of the halted status.
is_halted == halted

\* Variant: the loop hands control back at any iteration, halted or not.
ExecuteReturn_AnyTime ==
    /\ ctl = "execute"
    /\ ctl' = "caller"
    /\ result' = "Ok"
    /\ halt' = FALSE
    /\ halted' = HaltCondition
    /\ UNCHANGED <<registers, pc, operations, parsed, toggles, fetched, steps>>
    /\ UNCHANGED aux

\* Top of the loop: the halt check.
ExecuteReturn ==
    /\ ctl = "execute"
    /\ halt \/ pc >= Len(operations)
    /\ ctl' = "caller"
    /\ result' = "Ok"
    /\ halt' = FALSE
    /\ halted' = HaltCondition
    /\ UNCHANGED <<registers, pc, operations, parsed, toggles, fetched, steps>>
    /\ UNCHANGED aux

\* One more iteration passes the halt check and fetches an operation.
Fetches(name) ==
    /\ ctl = "execute"
    /\ ~halt
    /\ pc < Len(operations)
    /\ steps < budget
    /\ CurrentOperation.op = name
    /\ fetched' = [pc |-> pc, op |-> CurrentOperation]
    /\ steps' = steps + 1
    /\ UNCHANGED <<result, parsed, halted>>
    /\ UNCHANGED aux

\* ---------------------------------------------------------------- execute
\* Cpy: the value is stored unless the destination is no register.
ExecuteCpy ==
    /\ Fetches("Cpy")
    /\ IF ~Resolves(registers, CurrentOperation.first)
           THEN Panics
           ELSE LET value == get_op_argument_value(registers, CurrentOperation.first)
                    register == get_op_argument_register(CurrentOperation.second)
                IN  /\ IF register.ok
                           THEN registers' = Insert(registers, register.register, value)
                           ELSE UNCHANGED registers
                    /\ pc' = pc + 1
                    /\ ctl' = ctl
    /\ UNCHANGED <<operations, halt, toggles>>

\* Inc and Dec: get_mut(&register).unwrap() on the destination, when it is a register.
ExecuteInc ==
    /\ Fetches("Inc")
    /\ LET register == get_op_argument_register(CurrentOperation.first)
       IN  IF register.ok /\ register.register \notin DOMAIN registers
               THEN Panics
               ELSE /\ IF register.ok
                           THEN registers' = [registers EXCEPT ![register.register] = @ + 1]
                           ELSE UNCHANGED registers
                    /\ pc' = pc + 1
                    /\ ctl' = ctl
    /\ UNCHANGED <<operations, halt, toggles>>

\* Variant: the dec arm ends in `continue` and skips the increment of the loop.
ExecuteDec_StaysPut ==
    /\ Fetches("Dec")
    /\ LET register == get_op_argument_register(CurrentOperation.first)
       IN  IF register.ok /\ register.register \notin DOMAIN registers
               THEN Panics
               ELSE /\ IF register.ok
                           THEN registers' = [registers EXCEPT ![register.register] = @ - 1]
                           ELSE UNCHANGED registers
                    /\ pc' = pc
                    /\ ctl' = ctl
    /\ UNCHANGED <<operations, halt, toggles>>

ExecuteDec ==
    /\ Fetches("Dec")
    /\ LET register == get_op_argument_register(CurrentOperation.first)
       IN  IF register.ok /\ register.register \notin DOMAIN registers
               THEN Panics
               ELSE /\ IF register.ok
                           THEN registers' = [registers EXCEPT ![register.register] = @ - 1]
                           ELSE UNCHANGED registers
                    /\ pc' = pc + 1
                    /\ ctl' = ctl
    /\ UNCHANGED <<operations, halt, toggles>>

\* Variant: every backward jump counts as leaving the instruction space.
JnzLeftOfSpace_AnyBackward(delta, p) == delta < 0

\* delta < 0 && delta.unsigned_abs() > self.pc
JnzLeftOfSpace(delta, p) == delta < 0 /\ Abs(delta) > p

\* Variant: the compensation for the loop's increment applied before the range check.
JumpedPc_ShortByOne(delta, p) == (IF delta < 0 THEN p - Abs(delta) ELSE p + Abs(delta)) - 1

\* The program counter after "adjust program counter by jump".
JumpedPc(delta, p) == IF delta < 0 THEN p - Abs(delta) ELSE p + Abs(delta)

\* Variant: the reset without telling the loop to stop.
JnzHaltLeft_KeepsRunning ==
    /\ pc' = 0
    /\ halt' = FALSE
    /\ ctl' = ctl

\* The jump to the left of the instruction space: pc is reset and the loop told to stop.
JnzHaltLeft ==
    /\ pc' = 0
    /\ halt' = TRUE
    /\ ctl' = ctl

\* The jump to the right of the instruction space.
JnzHaltRight(jumped) ==
    /\ pc' = jumped
    /\ halt' = TRUE
    /\ ctl' = ctl

\* "self.pc -= 1" and then the loop's "self.pc += 1", for a jump that stays inside.
\* With jumped = 0 the unsigned subtraction overflows: a build with overflow checks
\* panics there (pc already holds the jumped value), a build without them wraps and
\* the following increment wraps back.
JnzLand(jumped) ==
    /\ halt' = halt
    /\ IF jumped >= 1
           THEN pc' = (jumped - 1) + 1 /\ ctl' = ctl
           ELSE \/ pc' = jumped /\ ctl' = "panic"
                \/ pc' = 0 /\ ctl' = ctl

\* Jnz: both operands are resolved before the check is looked at.
ExecuteJnz ==
    /\ Fetches("Jnz")
    /\ IF ~Resolves(registers, CurrentOperation.first)
            \/ ~Resolves(registers, CurrentOperation.second)
           THEN ctl' = "panic" /\ UNCHANGED <<pc, halt>>
           ELSE LET check == get_op_argument_value(registers, CurrentOperation.first)
                    delta == get_op_argument_value(registers, CurrentOperation.second)
                IN  IF check # 0
                        THEN IF JnzLeftOfSpace(delta, pc)
                                 THEN JnzHaltLeft
                                 ELSE IF JumpedPc(delta, pc) >= Len(operations)
                                          THEN JnzHaltRight(JumpedPc(delta, pc))
                                          ELSE JnzLand(JumpedPc(delta, pc))
                        ELSE pc' = pc + 1 /\ halt' = halt /\ ctl' = ctl
    /\ UNCHANGED <<registers, operations, toggles>>

\* Variant: the right-hand comparison off by one.
TglOutsideSpace_OffByOne(delta, p, n) ==
    \/ delta < 0 /\ Abs(delta) > p
    \/ delta > 0 /\ Abs(delta) + p > n

\* The check that the toggle delta points outside of the instruction space.
TglOutsideSpace(delta, p, n) ==
    \/ delta < 0 /\ Abs(delta) > p
    \/ delta > 0 /\ Abs(delta) + p >= n

\* let i_toggle = delta.unsigned_abs() + self.pc
ToggleIndex(delta, p) == Abs(delta) + p

\* Variant: cpy and jnz exchange their operands when toggled.
ToggledOperation_SwapsOperands(o) ==
    CASE o.op = "Cpy" -> Jnz(o.second, o.first)
      [] o.op = "Inc" -> Dec(o.first)
      [] o.op = "Dec" -> Inc(o.first)
      [] o.op = "Jnz" -> Cpy(o.second, o.first)
      [] o.op = "Tgl" -> Inc(o.first)

\* Variant: a toggled tgl becomes a dec.
ToggledOperation_TglToDec(o) ==
    CASE o.op = "Cpy" -> Jnz(o.first, o.second)
      [] o.op = "Inc" -> Dec(o.first)
      [] o.op = "Dec" -> Inc(o.first)
      [] o.op = "Jnz" -> Cpy(o.first, o.second)
      [] o.op = "Tgl" -> Dec(o.first)

\* Variant: a dec stays a dec.
ToggledOperation_DecSticks(o) ==
    CASE o.op = "Cpy" -> Jnz(o.first, o.second)
      [] o.op = "Inc" -> Dec(o.first)
      [] o.op = "Dec" -> Dec(o.first)
      [] o.op = "Jnz" -> Cpy(o.first, o.second)
      [] o.op = "Tgl" -> Inc(o.first)

\* The match that computes the replacement operation.
ToggledOperation(o) ==
    CASE o.op = "Cpy" -> Jnz(o.first, o.second)
      [] o.op = "Inc" -> Dec(o.first)
      [] o.op = "Dec" -> Inc(o.first)
      [] o.op = "Jnz" -> Cpy(o.first, o.second)
      [] o.op = "Tgl" -> Inc(o.first)

\* Variant: the replacement is computed on a copy and never stored.
WriteToggled_Discarded(ops, i) == ops

\* Variant: the replacement is pushed at the end instead of stored in place.
WriteToggled_Appends(ops, i) == Append(ops, ToggledOperation(ops[i + 1]))

\* Variant: every operation from the index on is replaced.
WriteToggled_FromIndexOn(ops, i) ==
    [j \in 1..Len(ops) |-> IF j >= i + 1 THEN ToggledOperation(ops[j]) ELSE ops[j]]

\* self.operations[i_toggle] = <replacement>, i 0-based and inside the vector.
WriteToggled(ops, i) == [ops EXCEPT ![i + 1] = ToggledOperation(ops[i + 1])]

\* Tgl: skip when the check says outside; otherwise index the vector at i_toggle,
\* which panics when i_toggle is not below the length.
ExecuteTgl ==
    /\ Fetches("Tgl")
    /\ IF ~Resolves(registers, CurrentOperation.first)
           THEN ctl' = "panic" /\ UNCHANGED <<operations, toggles, pc>>
           ELSE LET delta == get_op_argument_value(registers, CurrentOperation.first)
                    i_toggle == ToggleIndex(delta, pc)
                IN  IF TglOutsideSpace(delta, pc, Len(operations))
                        THEN /\ pc' = pc + 1
                             /\ UNCHANGED <<operations, toggles, ctl>>
                        ELSE IF i_toggle >= 0 /\ i_toggle < Len(operations)
                                 THEN /\ operations' = WriteToggled(operations, i_toggle)
                                      /\ toggles' = [toggles EXCEPT ![i_toggle + 1] = @ + 1]
                                      /\ pc' = pc + 1
                                      /\ ctl' = ctl
                                 ELSE /\ ctl' = "panic"
                                      /\ UNCHANGED <<operations, toggles, pc>>
    /\ UNCHANGED <<registers, halt>>

PresetRegister == \E r \in OperandRegisters, v \in PresetValues : set_register(r, v)

Next ==
    \/ PresetRegister
    \/ ExecuteCall
    \/ ExecuteReturn
    \/ ExecuteCpy
    \/ ExecuteInc
    \/ ExecuteDec
    \/ ExecuteJnz
    \/ ExecuteTgl

Spec == Init /\ [][Next]_vars

\* ---------------------------------------------------------------- properties
\* A loop iteration of execute on an operation of the given kind is being taken.
StepOf(name) ==
    /\ ctl = "execute"
    /\ ~halt
    /\ pc < Len(operations)
    /\ CurrentOperation.op = name
    /\ steps' = steps + 1

FirstValue == get_op_argument_value(registers, CurrentOperation.first)
SecondValue == get_op_argument_value(registers, CurrentOperation.second)

\* The toggle table as the specification prints it, operands kept in order.
TableEntry(o) ==
    IF o.op = "Cpy" THEN [op |-> "Jnz", first |-> o.first, second |-> o.second]
    ELSE IF o.op = "Jnz" THEN [op |-> "Cpy", first |-> o.first, second |-> o.second]
    ELSE IF o.op = "Inc" THEN [op |-> "Dec", first |-> o.first, second |-> NoArgument]
    ELSE IF o.op = "Dec" THEN [op |-> "Inc", first |-> o.first, second |-> NoArgument]
    ELSE [op |-> "Inc", first |-> o.first, second |-> NoArgument]

RECURSIVE TableTimes(_, _)
TableTimes(o, n) == IF n = 0 THEN o ELSE TableEntry(TableTimes(o, n - 1))

\* C1: a tgl whose signed target pc + k lies inside the program rewrites exactly
\* the operation at index pc + k and leaves every other operation as it was.
C1_TglRewritesSignedTarget ==
    [][(StepOf("Tgl") /\ pc + FirstValue >= 0 /\ pc + FirstValue < Len(operations))
        => /\ ctl' = "execute"
           /\ Len(operations') = Len(operations)
           /\ operations'[pc + FirstValue + 1] # operations[pc + FirstValue + 1]
           /\ \A i \in 1..Len(operations) :
                  i # pc + FirstValue + 1 => operations'[i] = operations[i]]_vars

\* C2: a taken jnz whose target pc + k lies inside the program continues at index
\* pc + k, target 0 and offset 0 included, with registers and program untouched.
C2_JnzLandsOnTarget ==
    [][(StepOf("Jnz") /\ FirstValue # 0
            /\ pc + SecondValue >= 0 /\ pc + SecondValue < Len(operations))
        => /\ ctl' = "execute"
           /\ ~halt'
           /\ pc' = pc + SecondValue
           /\ registers' = registers
           /\ operations' = operations]_vars

\* C3: whenever execute has returned, the program counter is at or past the end of
\* the program.
C3_ReturnsPastEnd == result = "Ok" => pc >= Len(operations)

\* C4: a taken jnz whose target lies before index 0 stops the loop without touching
\* registers or program, and a stopped loop does nothing but return Ok.
C4_JumpLeftHalts ==
    [][/\ (StepOf("Jnz") /\ FirstValue # 0 /\ pc + SecondValue < 0)
            => /\ halt'
               /\ ctl' = "execute"
               /\ registers' = registers
               /\ operations' = operations
       /\ (ctl = "execute" /\ halt)
            => /\ ctl' = "caller"
               /\ result' = "Ok"
               /\ steps' = steps
               /\ registers' = registers
               /\ operations' = operations]_vars

C4_Witness ==
    /\ ctl = "caller"
    /\ result = "Ok"
    /\ fetched.op.op = "Jnz"
    /\ get_op_argument_value(registers, fetched.op.first) # 0
    /\ fetched.pc + get_op_argument_value(registers, fetched.op.second) < 0
    /\ registers["a"] # 0

C6_TglOutsideIsSkipped ==
    [][(StepOf("Tgl") /\ (pc + FirstValue < 0 \/ pc + FirstValue >= Len(operations)))
        => /\ operations' = operations
           /\ registers' = registers
           /\ pc' = pc + 1
           /\ ctl' = "execute"
           /\ ~halt']_vars

C6_Witness ==
    /\ ctl = "execute"
    /\ fetched.pc >= 0
    /\ fetched.op.op = "Tgl"
    /\ fetched.pc + get_op_argument_value(registers, fetched.op.first) >= Len(operations)
    /\ pc = fetched.pc + 1
    /\ pc < Len(operations)
    /\ operations = parsed

\* C7: a cpy, inc or dec whose destination operand is a literal leaves registers and
\* program alone, raises nothing and moves the program counter on by one.
C7_LiteralDestinationIsNoOp ==
    [][/\ (StepOf("Cpy") /\ CurrentOperation.second.kind = "Value")
            => /\ registers' = registers /\ operations' = operations
               /\ pc' = pc + 1 /\ ctl' = "execute"
       /\ ((StepOf("Inc") \/ StepOf("Dec")) /\ CurrentOperation.first.kind = "Value")
            => /\ registers' = registers /\ operations' = operations
               /\ pc' = pc + 1 /\ ctl' = "execute"]_vars

C7_Witness ==
    /\ fetched.op.op = "Cpy"
    /\ fetched.op.second.kind = "Value"
    /\ fetched.op.first.kind = "Value"
    /\ pc = fetched.pc + 1

\* C8: the operation a loop iteration executes at an index is the parsed operation
\* with every rewrite done there so far applied, never a stale copy.
C8_FetchSeesRewrites ==
    [][(ctl = "execute" /\ steps' = steps + 1)
        => /\ fetched'.pc = pc
           /\ fetched'.op = TableTimes(parsed[pc + 1], toggles[pc + 1])]_vars

C8_Witness ==
    /\ fetched.pc >= 1
    /\ parsed[fetched.pc + 1].op = "Inc"
    /\ toggles[fetched.pc + 1] = 1
    /\ fetched.op = Dec(parsed[fetched.pc + 1].first)
    /\ registers["a"] = -1

\* C9: two rewrites of one index give back the parsed operation when it was a cpy,
\* jnz, inc or dec; a parsed tgl d becomes inc d and then dec d.
C9_DoubleToggle ==
    \A i \in 1..Len(parsed) :
        /\ (toggles[i] = 2 /\ parsed[i].op # "Tgl") => operations[i] = parsed[i]
        /\ (toggles[i] = 1 /\ parsed[i].op = "Tgl") => operations[i] = Inc(parsed[i].first)
        /\ (toggles[i] = 2 /\ parsed[i].op = "Tgl") => operations[i] = Dec(parsed[i].first)

C9_Witness ==
    \E i \in 1..Len(parsed) :
        /\ toggles[i] = 2
        /\ parsed[i].op = "Tgl"
        /\ operations[i].op = "Dec"

\* C10: the program always has as many operations as were parsed, and the operation
\* at each index is the one parsed there, rewritten as often as that index was toggled.
C10_ProgramShapeFixed ==
    /\ Len(operations) = Len(parsed)
    /\ DOMAIN toggles = 1..Len(parsed)
    /\ \A i \in 1..Len(parsed) :
           /\ i \in DOMAIN operations
           /\ operations[i] = TableTimes(parsed[i], toggles[i])

C10_Witness ==
    /\ ctl = "caller"
    /\ result = "Ok"
    /\ registers["a"] = 2
    /\ \E i \in 1..Len(parsed) : toggles[i] >= 2

\* ---------------------------------------------------------------- the example programs
\* cpy n a / tgl a / tgl a / tgl a / cpy 1 a / dec a / dec a
ToggleProgram(n) ==
    << Cpy(Value(n), Register("a")), Tgl(Register("a")), Tgl(Register("a")),
       Tgl(Register("a")), Cpy(Value(1), Register("a")), Dec(Register("a")),
       Dec(Register("a")) >>

\* cpy v a / inc a / inc a / dec a / jnz a 2 / dec a
CountProgram(v) ==
    << Cpy(Value(v), Register("a")), Inc(Register("a")), Inc(Register("a")),
       Dec(Register("a")), Jnz(Register("a"), Value(2)), Dec(Register("a")) >>

ToggleExample == ToggleProgram(2)
CountExample == CountProgram(41)

\* The two examples and their neighbours with another first literal.
ExamplePrograms ==
    {ToggleProgram(n) : n \in -1..6} \cup {CountProgram(v) : v \in {-2, -1, 0, 1, 40, 41, 42, 43}}

\* new on the text of an example; the caller presets nothing.
InitExamples ==
    /\ operations \in ExamplePrograms
    /\ parsed = operations
    /\ registers = [r \in RegisterNames |-> 0]
    /\ pc = 0
    /\ halt = FALSE
    /\ halted = FALSE
    /\ ctl = "caller"
    /\ result = "none"
    /\ toggles = [i \in 1..Len(operations) |-> 0]
    /\ fetched = NotFetched
    /\ steps = 0
    /\ budget = MaxExampleSteps
    /\ text = <<>>
    /\ loaded = "ok"
    /\ reply = NoReply
    /\ other = NoInstance
    /\ active = "source"

NextExamples ==
    \/ ExecuteCall
    \/ ExecuteReturn
    \/ ExecuteCpy
    \/ ExecuteInc
    \/ ExecuteDec
    \/ ExecuteJnz
    \/ ExecuteTgl

SpecExamples == InitExamples /\ [][NextExamples]_vars

\* C11: the toggle example, run from registers 0, never panics, is not cut short by
\* the exploration (five iterations suffice) and returns with register a = 3.
C11_ToggleExampleGivesThree ==
    parsed = ToggleExample
        => /\ ctl # "panic"
           /\ steps <= 5
           /\ (ctl = "execute" /\ steps = 5) => (halt \/ pc >= Len(operations))
           /\ result = "Ok" => registers["a"] = 3

C11_Witness ==
    /\ parsed = ToggleExample
    /\ ctl = "caller"
    /\ result = "Ok"
    /\ steps = 5
    /\ registers["a"] = 3
    /\ toggles = <<0, 0, 0, 1, 1, 0, 0>>

\* C12: the counting example, run from registers 0, never panics, is not cut short
\* by the exploration and returns with register a = 42, its last dec never fetched.
C12_CountExampleGivesFortyTwo ==
    parsed = CountExample
        => /\ ctl # "panic"
           /\ steps <= 5
           /\ fetched.pc # 5
           /\ (ctl = "execute" /\ steps = 5) => (halt \/ pc >= Len(operations))
           /\ result = "Ok" => registers["a"] = 42

C12_Witness ==
    /\ parsed = CountExample
    /\ ctl = "caller"
    /\ result = "Ok"
    /\ registers["a"] = 42
    /\ fetched.pc = 4
    /\ pc = 6

\* ---------------------------------------------------------------- clone
\* The instance the caller operates, as a value; shares names the fields whose
\* storage the other instance would see change.
ActiveInstance ==
    [exists |-> TRUE, registers |-> registers, pc |-> pc, operations |-> operations,
     shares |-> {}, result |-> result, parsed |-> parsed, toggles |-> toggles,
     fetched |-> fetched, steps |-> steps, halted |-> halted]

\* Variant: the copy keeps pointing at the source's operations vector.
CloneOf_SharesOperations(interpreter) == [interpreter EXCEPT !.shares = {"operations"}]

\* The derived Clone: the map and the vector are cloned into storage of their own,
\* the program counter is copied.
CloneOf(interpreter) == [interpreter EXCEPT !.shares = {}]

\* What the instance the caller is not operating holds right now.
OtherView ==
    [registers |-> IF "registers" \in other.shares THEN registers ELSE other.registers,
     pc |-> other.pc,
     operations |-> IF "operations" \in other.shares THEN operations ELSE other.operations]

\* interpreter.clone() between two calls; the caller goes on with the source.
CloneInterpreter ==
    /\ ctl = "caller"
    /\ ~other.exists
    /\ other' = CloneOf(ActiveInstance)
    /\ UNCHANGED <<registers, pc, operations, halt, halted, ctl, result, parsed, toggles,
                   fetched, steps, budget, text, loaded, reply, active>>

\* The caller turns to the instance it was not operating.
SwitchInstance ==
    /\ ctl = "caller"
    /\ other.exists
    /\ active' = IF active = "source" THEN "clone" ELSE "source"
    /\ registers' = OtherView.registers
    /\ pc' = OtherView.pc
    /\ operations' = OtherView.operations
    /\ result' = other.result
    /\ parsed' = other.parsed
    /\ toggles' = other.toggles
    /\ fetched' = other.fetched
    /\ steps' = other.steps
    /\ halted' = other.halted
    /\ other' = [ActiveInstance EXCEPT !.shares = other.shares]
    /\ UNCHANGED <<halt, ctl, budget, text, loaded, reply>>

\* Programs that rewrite themselves first.
ClonePrograms == {<<Tgl(x), o>> : x \in Operands, o \in LoadableOperations}

InitClone ==
    /\ operations \in ClonePrograms
    /\ parsed = operations
    /\ registers = [r \in RegisterNames |-> 0]
    /\ pc = 0
    /\ halt = FALSE
    /\ halted = FALSE
    /\ ctl = "caller"
    /\ result = "none"
    /\ toggles = [i \in 1..Len(operations) |-> 0]
    /\ fetched = NotFetched
    /\ steps = 0
    /\ budget = MaxSteps
    /\ text = <<>>
    /\ loaded = "ok"
    /\ reply = NoReply
    /\ other = NoInstance
    /\ active = "source"

NextClone ==
    \/ CloneInterpreter
    \/ SwitchInstance
    \/ PresetRegister
    \/ ExecuteCall
    \/ ExecuteReturn
    \/ ExecuteCpy
    \/ ExecuteInc
    \/ ExecuteDec
    \/ ExecuteJnz
    \/ ExecuteTgl

SpecClone == InitClone /\ [][NextClone]_vars

\* C13: whatever is done to one instance (presets, execute, toggles), the other
\* instance keeps its registers, program counter and program; cloning leaves the
\* source as it was and yields an equal copy; turning to the other instance changes
\* neither.
C13_CloneIsIndependent ==
    [][/\ (other.exists /\ other'.exists /\ active' = active) => OtherView' = OtherView
       /\ (~other.exists /\ other'.exists)
            => /\ registers' = registers /\ pc' = pc /\ operations' = operations
               /\ OtherView' = [registers |-> registers, pc |-> pc, operations |-> operations]
       /\ (other.exists /\ active' # active)
            => /\ OtherView' = [registers |-> registers, pc |-> pc, operations |-> operations]
               /\ [registers |-> registers', pc |-> pc', operations |-> operations']
                      = OtherView]_vars

C13_Witness ==
    /\ other.exists
    /\ active = "clone"
    /\ ctl = "caller"
    /\ result = "Ok"
    /\ \E i \in 1..Len(operations) : toggles[i] = 1 /\ operations[i] # other.operations[i]
    /\ other.operations = parsed
    /\ other.result = "Ok"
    /\ registers["a"] # other.registers["a"]
    /\ pc # other.pc

\* ---------------------------------------------------------------- register access
\* Names and values the caller passes to get_register and set_register.
CallerNames == RegisterNames \cup {"e", "A"}
CallerValues == {-3, 7}

\* get_register with its return value; at records how many loop iterations had run.
GetRegister(register) ==
    /\ ctl = "caller"
    /\ reply' = IF register \in DOMAIN registers
                    THEN [call |-> "get", name |-> register, ok |-> TRUE,
                          value |-> registers[register], at |-> steps]
                    ELSE [call |-> "get", name |-> register, ok |-> FALSE,
                          value |-> 0, at |-> steps]
    /\ UNCHANGED <<registers, pc, operations, halt, halted, ctl, result, parsed, toggles,
                   fetched, steps, budget, text, loaded, other, active>>

\* Variant: entry(register).or_insert(value), which keeps the value of an occupied entry.
SetRegister_OrInsert(register, value) ==
    /\ ctl = "caller"
    /\ IF register \in DOMAIN registers
           THEN registers' = registers
           ELSE registers' = [r \in DOMAIN registers \cup {register} |->
                                 IF r = register THEN value ELSE registers[r]]
    /\ reply' = [call |-> "set", name |-> register, ok |-> TRUE, value |-> value, at |-> steps]
    /\ UNCHANGED <<pc, operations, halt, halted, ctl, result, parsed, toggles, fetched,
                   steps, budget, text, loaded, other, active>>

\* Variant: a plain insert, which creates the register when it is missing.
SetRegister_Inserts(register, value) ==
    /\ ctl = "caller"
    /\ registers' = [r \in DOMAIN registers \cup {register} |->
                        IF r = register THEN value ELSE registers[r]]
    /\ reply' = [call |-> "set", name |-> register, ok |-> TRUE, value |-> value, at |-> steps]
    /\ UNCHANGED <<pc, operations, halt, halted, ctl, result, parsed, toggles, fetched,
                   steps, budget, text, loaded, other, active>>

\* set_register with its return value: the occupied entry is overwritten, a vacant
\* one is reported and left vacant.
SetRegister(register, value) ==
    /\ ctl = "caller"
    /\ IF register \in DOMAIN registers
           THEN /\ registers' = [registers EXCEPT ![register] = value]
                /\ reply' = [call |-> "set", name |-> register, ok |-> TRUE,
                             value |-> value, at |-> steps]
           ELSE /\ registers' = registers
                /\ reply' = [call |-> "set", name |-> register, ok |-> FALSE,
                             value |-> value, at |-> steps]
    /\ UNCHANGED <<pc, operations, halt, halted, ctl, result, parsed, toggles, fetched,
                   steps, budget, text, loaded, other, active>>

CallGetRegister == \E register \in CallerNames : GetRegister(register)
CallSetRegister == \E register \in CallerNames, value \in CallerValues : SetRegister(register, value)

RegisterPrograms ==
    { <<Tgl(Value(1)), Inc(Register("a")), Jnz(Register("a"), Value(-1))>>,
      <<Cpy(Value(1), Register("a")), Inc(Register("a"))>> }

InitRegisters ==
    /\ operations \in RegisterPrograms
    /\ parsed = operations
    /\ registers = [r \in RegisterNames |-> 0]
    /\ pc = 0
    /\ halt = FALSE
    /\ halted = FALSE
    /\ ctl = "caller"
    /\ result = "none"
    /\ toggles = [i \in 1..Len(operations) |-> 0]
    /\ fetched = NotFetched
    /\ steps = 0
    /\ budget = MaxSteps
    /\ text = <<>>
    /\ loaded = "ok"
    /\ reply = NoReply
    /\ other = NoInstance
    /\ active = "source"

NextRegisters ==
    \/ CallGetRegister
    \/ CallSetRegister
    \/ ExecuteCall
    \/ ExecuteReturn
    \/ ExecuteCpy
    \/ ExecuteInc
    \/ ExecuteDec
    \/ ExecuteJnz
    \/ ExecuteTgl

SpecRegisters == InitRegisters /\ [][NextRegisters]_vars

\* C14: set_register on a, b, c or d succeeds, and a get_register of the same
\* register that follows it with nothing run in between returns the value set.
C14_SetThenGet ==
    [][/\ (reply' # reply /\ reply'.call = "set" /\ reply'.name \in {"a", "b", "c", "d"})
            => reply'.ok
       /\ (reply.call = "set" /\ reply.name \in {"a", "b", "c", "d"}
             /\ reply' # reply /\ reply'.call = "get" /\ reply'.name = reply.name
             /\ reply'.at = reply.at)
            => (reply'.ok /\ reply'.value = reply.value)]_vars

C14_Witness ==
    /\ reply.call = "get"
    /\ reply.name = "d"
    /\ reply.ok
    /\ reply.value = 7
    /\ reply.at = 2
    /\ registers = [a |-> -3, b |-> 0, c |-> -3, d |-> 7]

\* C15: get_register and set_register with a name other than a, b, c, d return the
\* error and leave the registers (names and values), the program counter and the
\* program as they were.
C15_UnknownRegisterIsRefused ==
    [][(reply' # reply /\ reply'.call \in {"get", "set"} /\ reply'.name \notin {"a", "b", "c", "d"})
        => /\ ~reply'.ok
           /\ DOMAIN registers' = {"a", "b", "c", "d"}
           /\ registers' = registers
           /\ pc' = pc
           /\ operations' = operations]_vars

C15_Witness ==
    /\ reply.call = "set"
    /\ reply.name = "e"
    /\ ~reply.ok
    /\ pc = 2
    /\ operations # parsed
    /\ registers["b"] = 7

\* ---------------------------------------------------------------- the loader
\* A line is a sequence of characters; a text is a sequence of lines (raw_input.lines()).
SpaceChars == {" "}
Digits == {"0", "1", "2", "3", "4", "5", "6", "7", "8", "9"}

\* line.trim()
RECURSIVE TrimStart(_)
TrimStart(line) ==
    IF line # <<>> /\ Head(line) \in SpaceChars THEN TrimStart(Tail(line)) ELSE line

RECURSIVE TrimEnd(_)
TrimEnd(line) ==
    IF line # <<>> /\ line[Len(line)] \in SpaceChars
        THEN TrimEnd(SubSeq(line, 1, Len(line) - 1))
        ELSE line

Trim(line) == TrimEnd(TrimStart(line))

\* The pieces of a line between the single spaces the regular expressions spell out.
RECURSIVE Fields(_)
Fields(line) ==
    IF \A i \in 1..Len(line) : line[i] # " "
        THEN <<line>>
        ELSE LET k == CHOOSE i \in 1..Len(line) :
                          line[i] = " " /\ \A j \in 1..(i - 1) : line[j] # " "
             IN  <<SubSeq(line, 1, k - 1)>> \o Fields(SubSeq(line, k + 1, Len(line)))

\* [abcd]
IsRegisterToken(t) == Len(t) = 1 /\ t[1] \in {"a", "b", "c", "d"}

\* -?\d+
IsIntegerToken(t) ==
    LET digits == IF t # <<>> /\ t[1] = "-" THEN Tail(t) ELSE t
    IN  digits # <<>> /\ \A i \in 1..Len(digits) : digits[i] \in Digits

\* ([abcd]|-?\d+)
IsOperandToken(t) == IsRegisterToken(t) \/ IsIntegerToken(t)

Mnemonic(name) ==
    CASE name = "cpy" -> <<"c", "p", "y">>
      [] name = "inc" -> <<"i", "n", "c">>
      [] name = "dec" -> <<"d", "e", "c">>
      [] name = "jnz" -> <<"j", "n", "z">>
      [] name = "tgl" -> <<"t", "g", "l">>

\* Variant: the destination of cpy may be any operand.
MatchesCpy_AnyDestination(f) ==
    Len(f) = 3 /\ f[1] = Mnemonic("cpy") /\ IsOperandToken(f[2]) /\ IsOperandToken(f[3])

\* REGEX_CPY .. REGEX_TGL on the fields of a trimmed line.
MatchesCpy(f) ==
    Len(f) = 3 /\ f[1] = Mnemonic("cpy") /\ IsOperandToken(f[2]) /\ IsRegisterToken(f[3])
MatchesInc(f) == Len(f) = 2 /\ f[1] = Mnemonic("inc") /\ IsRegisterToken(f[2])
MatchesDec(f) == Len(f) = 2 /\ f[1] = Mnemonic("dec") /\ IsRegisterToken(f[2])
MatchesJnz(f) ==
    Len(f) = 3 /\ f[1] = Mnemonic("jnz") /\ IsOperandToken(f[2]) /\ IsOperandToken(f[3])
MatchesTgl(f) == Len(f) = 2 /\ f[1] = Mnemonic("tgl") /\ IsOperandToken(f[2])

DigitValue(c) ==
    CASE c = "0" -> 0 [] c = "1" -> 1 [] c = "2" -> 2 [] c = "3" -> 3 [] c = "4" -> 4
      [] c = "5" -> 5 [] c = "6" -> 6 [] c = "7" -> 7 [] c = "8" -> 8 [] c = "9" -> 9

\* The decimal digits of isize::MAX, 2^63 - 1; the magnitude of isize::MIN ends in 8.
IsizeMaxDigits ==
    <<"9", "2", "2", "3", "3", "7", "2", "0", "3", "6", "8", "5", "4", "7", "7", "5", "8", "0", "7">>
IsizeMinDigits ==
    <<"9", "2", "2", "3", "3", "7", "2", "0", "3", "6", "8", "5", "4", "7", "7", "5", "8", "0", "8">>

RECURSIVE StripZeros(_)
StripZeros(digits) ==
    IF Len(digits) > 1 /\ Head(digits) = "0" THEN StripZeros(Tail(digits)) ELSE digits

\* a > b for two digit strings of the same length.
RECURSIVE DigitsGreater(_, _)
DigitsGreater(a, b) ==
    IF a = <<>> THEN FALSE
    ELSE IF DigitValue(Head(a)) # DigitValue(Head(b))
        THEN DigitValue(Head(a)) > DigitValue(Head(b))
        ELSE DigitsGreater(Tail(a), Tail(b))

\* The magnitude does not fit the 64-bit signed range.
Overflows(digits, negative) ==
    LET m == StripZeros(digits)
        limit == IF negative THEN IsizeMinDigits ELSE IsizeMaxDigits
    IN  Len(m) > Len(limit) \/ (Len(m) = Len(limit) /\ DigitsGreater(m, limit))

RECURSIVE Magnitude(_)
Magnitude(digits) ==
    IF digits = <<>> THEN 0
    ELSE 10 * Magnitude(SubSeq(digits, 1, Len(digits) - 1)) + DigitValue(digits[Len(digits)])

\* s.parse::<isize>(): an optional sign, then one or more digits, inside the range.
ParseIsize(t) ==
    LET signed == t # <<>> /\ t[1] \in {"-", "+"}
        negative == t # <<>> /\ t[1] = "-"
        digits == IF signed THEN Tail(t) ELSE t
    IN  IF digits = <<>> \/ (\E i \in 1..Len(digits) : digits[i] \notin Digits)
            THEN [ok |-> FALSE, value |-> 0]
        ELSE IF Overflows(digits, negative)
            THEN [ok |-> FALSE, value |-> 0]
        ELSE [ok |-> TRUE,
              value |-> IF negative THEN -Magnitude(digits) ELSE Magnitude(digits)]

\* OpArgument::from_str: a value when the token parses, else a register named by
\* the first character of the token, else (empty token) the error.
from_str(t) ==
    IF ParseIsize(t).ok THEN [ok |-> TRUE, arg |-> Value(ParseIsize(t).value)]
    ELSE IF t # <<>> THEN [ok |-> TRUE, arg |-> Register(t[1])]
    ELSE [ok |-> FALSE, arg |-> NoArgument]

NoOperation == [op |-> "None", first |-> NoArgument, second |-> NoArgument]

\* The if / else-if chain over the five regular expressions, for one trimmed line.
ParseLine(line) ==
    LET f == Fields(line)
    IN  IF MatchesCpy(f) THEN
            [ok |-> from_str(f[2]).ok /\ from_str(f[3]).ok,
             operation |-> Cpy(from_str(f[2]).arg, from_str(f[3]).arg)]
        ELSE IF MatchesInc(f) THEN
            [ok |-> from_str(f[2]).ok, operation |-> Inc(from_str(f[2]).arg)]
        ELSE IF MatchesDec(f) THEN
            [ok |-> from_str(f[2]).ok, operation |-> Dec(from_str(f[2]).arg)]
        ELSE IF MatchesJnz(f) THEN
            [ok |-> from_str(f[2]).ok /\ from_str(f[3]).ok,
             operation |-> Jnz(from_str(f[2]).arg, from_str(f[3]).arg)]
        ELSE IF MatchesTgl(f) THEN
            [ok |-> from_str(f[2]).ok, operation |-> Tgl(from_str(f[2]).arg)]
        ELSE [ok |-> FALSE, operation |-> NoOperation]

\* Variant: a line that matches nothing is passed over.
RECURSIVE LoadOperations_SkipsUnknown(_)
LoadOperations_SkipsUnknown(lines) ==
    IF lines = <<>> THEN [ok |-> TRUE, operations |-> <<>>]
    ELSE LET line == Trim(Head(lines))
             rest == LoadOperations_SkipsUnknown(Tail(lines))
         IN  IF line = <<>> \/ ~ParseLine(line).ok THEN rest
             ELSE [ok |-> rest.ok, operations |-> <<ParseLine(line).operation>> \o rest.operations]

\* The loop of new over the lines: blank lines skipped, the first line that does
\* not load ends the load with the error.
RECURSIVE LoadOperations(_)
LoadOperations(lines) ==
    IF lines = <<>> THEN [ok |-> TRUE, operations |-> <<>>]
    ELSE LET line == Trim(Head(lines))
             rest == LoadOperations(Tail(lines))
         IN  IF line = <<>> THEN rest
             ELSE IF ~ParseLine(line).ok \/ ~rest.ok THEN [ok |-> FALSE, operations |-> <<>>]
             ELSE [ok |-> TRUE, operations |-> <<ParseLine(line).operation>> \o rest.operations]

\* Variant: register a starts at 1.
NewRegisters_AStartsAtOne == [r \in {"a", "b", "c", "d"} |-> IF r = "a" THEN 1 ELSE 0]

\* HashMap::from([('a', 0), ('b', 0), ('c', 0), ('d', 0)])
NewRegisters == [r \in {"a", "b", "c", "d"} |-> 0]

\* AssembunnyInterpreter::new(raw_input)
New ==
    /\ loaded = "unbuilt"
    /\ LET r == LoadOperations(text)
       IN  IF r.ok
               THEN /\ loaded' = "ok"
                    /\ operations' = r.operations
                    /\ parsed' = r.operations
                    /\ toggles' = [i \in 1..Len(r.operations) |-> 0]
                    /\ registers' = NewRegisters
                    /\ pc' = 0
               ELSE /\ loaded' = "err"
                    /\ UNCHANGED <<operations, parsed, toggles, registers, pc>>
    /\ UNCHANGED <<halt, halted, ctl, result, fetched, steps, budget, text, reply, other, active>>

\* The lines the texts are made of.
\* "cpy 2 a"
LineCpy2A == <<"c", "p", "y", " ", "2", " ", "a">>
\* "cpy a b"
LineCpyAB == <<"c", "p", "y", " ", "a", " ", "b">>
\* "inc a"
LineIncA == <<"i", "n", "c", " ", "a">>
\* "dec d"
LineDecD == <<"d", "e", "c", " ", "d">>
\* "jnz a -2"
LineJnzAMinus2 == <<"j", "n", "z", " ", "a", " ", "-", "2">>
\* "tgl c"
LineTglC == <<"t", "g", "l", " ", "c">>
\* ""
LineBlank == <<>>
\* "  "
LineSpaces == <<" ", " ">>
\* " inc b "
LinePaddedIncB == <<" ", "i", "n", "c", " ", "b", " ">>
\* "cpy 1 2"
LineCpy1To2 == <<"c", "p", "y", " ", "1", " ", "2">>
\* "inc 3"
LineInc3 == <<"i", "n", "c", " ", "3">>
\* "dec -1"
LineDecMinus1 == <<"d", "e", "c", " ", "-", "1">>
\* "nop"
LineNop == <<"n", "o", "p">>
\* "inc e"
LineIncE == <<"i", "n", "c", " ", "e">>
\* "jnz a"
LineJnzA == <<"j", "n", "z", " ", "a">>
\* "tgl 99999999999999999999"
LineTglHuge == <<"t", "g", "l", " ", "9", "9", "9", "9", "9", "9", "9", "9", "9", "9", "9", "9", "9", "9", "9", "9", "9", "9", "9", "9">>

LoaderLines ==
    {LineCpy2A, LineCpyAB, LineIncA, LineDecD, LineJnzAMinus2,
     LineTglC, LineBlank, LineSpaces, LinePaddedIncB, LineCpy1To2,
     LineInc3, LineDecMinus1, LineNop, LineIncE, LineJnzA,
     LineTglHuge}

Texts == UNION {[1..n -> LoaderLines] : n \in 0..MaxLines}

\* Before new has run there is no interpreter.
InitLoad ==
    /\ text \in Texts
    /\ loaded = "unbuilt"
    /\ operations = <<>>
    /\ parsed = <<>>
    /\ toggles = <<>>
    /\ registers = <<>>
    /\ pc = -1
    /\ halt = FALSE
    /\ halted = FALSE
    /\ ctl = "caller"
    /\ result = "none"
    /\ fetched = NotFetched
    /\ steps = 0
    /\ budget = MaxSteps
    /\ reply = NoReply
    /\ other = NoInstance
    /\ active = "source"

NextLoad == New

SpecLoad == InitLoad /\ [][NextLoad]_vars

\* What the lines of the texts say, written out by hand.
BlankLines == {LineBlank, LineSpaces}
WellFormedLines ==
    {LineCpy2A, LineCpyAB, LineIncA, LineDecD, LineJnzAMinus2, LineTglC, LinePaddedIncB}
LiteralDestinationLines == {LineCpy1To2, LineInc3, LineDecMinus1}
NoFormLines == {LineNop, LineIncE, LineJnzA}

IsInstructionLine(line) == line \notin BlankLines

\* The operation o is the one the line spells.
Spells(line, o) ==
    CASE line = LineCpy2A -> o = Cpy(Value(2), Register("a"))
      [] line = LineCpyAB -> o = Cpy(Register("a"), Register("b"))
      [] line = LineIncA -> o = Inc(Register("a"))
      [] line = LineDecD -> o = Dec(Register("d"))
      [] line = LineJnzAMinus2 -> o = Jnz(Register("a"), Value(-2))
      [] line = LineTglC -> o = Tgl(Register("c"))
      [] line = LinePaddedIncB -> o = Inc(Register("b"))
      [] line = LineCpy1To2 -> o = Cpy(Value(1), Value(2))
      [] line = LineInc3 -> o = Inc(Value(3))
      [] line = LineDecMinus1 -> o = Dec(Value(-1))
      [] line = LineTglHuge -> o.op = "Tgl" /\ o.first.kind = "Value"
      [] OTHER -> FALSE

NoInterpreter == operations = <<>> /\ registers = <<>> /\ pc = -1

\* C16: a text with a line that has none of the five forms, wherever it stands,
\* fails to load and leaves no interpreter.
C16_UnknownLineFailsLoad ==
    (loaded # "unbuilt" /\ \E i \in 1..Len(text) : text[i] \in NoFormLines)
        => (loaded = "err" /\ NoInterpreter)

C16_Witness ==
    /\ loaded = "err"
    /\ Len(text) = 3
    /\ text[1] = LineCpy2A
    /\ text[2] = LineNop
    /\ text[3] = LineIncA

\* C17: a text with an operand that is neither a register name nor an integer of
\* the register width fails to load, and every register operand of a loaded
\* program names a, b, c or d.
C17_UnparseableOperandFailsLoad ==
    loaded # "unbuilt"
        => /\ (\E i \in 1..Len(text) : text[i] = LineTglHuge) => loaded = "err"
           /\ loaded = "ok"
                => \A i \in 1..Len(operations) :
                       /\ operations[i].first.kind = "Register"
                            => operations[i].first.register \in {"a", "b", "c", "d"}
                       /\ operations[i].second.kind = "Register"
                            => operations[i].second.register \in {"a", "b", "c", "d"}

\* C18 as stated: a text of well-formed lines and cpy, inc or dec lines with a
\* literal destination loads.
C18_LiteralDestinationLoads ==
    (/\ loaded # "unbuilt"
     /\ \E i \in 1..Len(text) : text[i] \in LiteralDestinationLines
     /\ \A i \in 1..Len(text) :
            text[i] \in LiteralDestinationLines \cup WellFormedLines \cup BlankLines)
        => loaded = "ok"

\* C18 as amended: a text with a cpy, inc or dec line whose destination is an
\* integer literal fails to load and leaves no interpreter.
C18_LiteralDestinationIsRejected ==
    (loaded # "unbuilt" /\ \E i \in 1..Len(text) : text[i] \in LiteralDestinationLines)
        => (loaded = "err" /\ NoInterpreter)

C18_Witness ==
    /\ loaded = "err"
    /\ Len(text) = 2
    /\ text[1] = LineIncA
    /\ text[2] = LineCpy1To2

\* C19: a loaded program has one operation for each line that is not blank, in the
\* order of the lines, and each operation is the one its line spells.
C19_ProgramMirrorsText ==
    loaded = "ok"
        => LET instructions == SelectSeq(text, IsInstructionLine)
           IN  /\ Len(operations) = Len(instructions)
               /\ \A i \in 1..Len(instructions) :
                      i \in DOMAIN operations /\ Spells(instructions[i], operations[i])

\* C20: a freshly loaded interpreter has exactly the registers a, b, c, d, all 0,
\* and the program counter 0.
C20_FreshInterpreterIsZeroed ==
    loaded = "ok"
        => /\ DOMAIN registers = {"a", "b", "c", "d"}
           /\ \A r \in {"a", "b", "c", "d"} : registers[r] = 0
           /\ pc = 0

C20_Witness ==
    /\ loaded = "ok"
    /\ Len(text) = 3
    /\ Len(operations) = 2
    /\ operations[2] = Tgl(Register("c"))
    /\ registers = [a |-> 0, b |-> 0, c |-> 0, d |-> 0]
    /\ pc = 0

C22_AdvancesByOne ==
    [][(\/ StepOf("Cpy") \/ StepOf("Inc") \/ StepOf("Dec") \/ StepOf("Tgl")
        \/ (StepOf("Jnz") /\ FirstValue = 0))
        => pc' = pc + 1]_vars

\* Programs of two operations over two registers, so that a source register differs
\* from the destination; the caller presets both.
EffectRegisters == {"a", "b"}
EffectOperands == {Register(r) : r \in EffectRegisters} \cup {Value(v) : v \in Literals}
EffectOperations ==
    {Cpy(x, Register(r)) : x \in EffectOperands, r \in EffectRegisters}
        \cup {Inc(Register(r)) : r \in EffectRegisters}
        \cup {Dec(Register(r)) : r \in EffectRegisters}
        \cup {Jnz(x, y) : x \in EffectOperands, y \in EffectOperands}
        \cup {Tgl(x) : x \in EffectOperands}
EffectPrograms == [1..2 -> EffectOperations]

PresetEffects == \E r \in EffectRegisters, v \in PresetValues : set_register(r, v)

InitEffects ==
    /\ operations \in EffectPrograms
    /\ parsed = operations
    /\ registers = NewRegisters
    /\ pc = 0
    /\ halt = FALSE
    /\ halted = FALSE
    /\ ctl = "caller"
    /\ result = "none"
    /\ toggles = [i \in 1..Len(operations) |-> 0]
    /\ fetched = NotFetched
    /\ steps = 0
    /\ budget = MaxSteps
    /\ text = <<>>
    /\ loaded = "ok"
    /\ reply = NoReply
    /\ other = NoInstance
    /\ active = "source"

NextEffects ==
    \/ PresetEffects
    \/ ExecuteCall
    \/ ExecuteReturn
    \/ ExecuteCpy
    \/ ExecuteInc
    \/ ExecuteDec
    \/ ExecuteJnz
    \/ ExecuteTgl

SpecEffects == InitEffects /\ [][NextEffects]_vars

\* The registers other than r keep their values and no register appears or goes.
OthersKept(r) ==
    /\ DOMAIN registers' = DOMAIN registers
    /\ \A q \in DOMAIN registers : q # r => registers'[q] = registers[q]

\* What the source operand of the operation about to run stands for: the literal, or
\* the value its register holds now.
SourceValue ==
    IF CurrentOperation.first.kind = "Value"
        THEN CurrentOperation.first.value
        ELSE registers[CurrentOperation.first.register]

\* C23: cpy src r leaves in r the value src resolved to before the step, inc r adds
\* 1 to r and dec r subtracts 1, each with the other registers kept; a jnz or a tgl
\* changes no register.
C23_RegisterEffects ==
    [][/\ (StepOf("Cpy") /\ CurrentOperation.second.kind = "Register")
            => /\ registers'[CurrentOperation.second.register] = SourceValue
               /\ OthersKept(CurrentOperation.second.register)
       /\ (StepOf("Inc") /\ CurrentOperation.first.kind = "Register")
            => /\ registers'[CurrentOperation.first.register]
                      = registers[CurrentOperation.first.register] + 1
               /\ OthersKept(CurrentOperation.first.register)
       /\ (StepOf("Dec") /\ CurrentOperation.first.kind = "Register")
            => /\ registers'[CurrentOperation.first.register]
                      = registers[CurrentOperation.first.register] - 1
               /\ OthersKept(CurrentOperation.first.register)
       /\ (StepOf("Jnz") \/ StepOf("Tgl")) => registers' = registers]_vars

C23_Witness ==
    /\ fetched.op = Cpy(Register("b"), Register("a"))
    /\ pc = fetched.pc + 1
    /\ parsed[fetched.pc + 1].op = "Jnz"
    /\ registers["a"] = 2
    /\ registers["b"] = 2
    /\ steps = 2

\* ---------------------------------------------------------------- what leaves the program alone
\* The caller reads and writes registers, by a known and by an unknown name, between
\* runs of programs that begin with a tgl.
FrameNames == {"a", "e"}
FrameGetRegister == \E register \in FrameNames : GetRegister(register)
FrameSetRegister == \E register \in FrameNames, value \in PresetValues : SetRegister(register, value)

NextFrame ==
    \/ FrameGetRegister
    \/ FrameSetRegister
    \/ ExecuteCall
    \/ ExecuteReturn
    \/ ExecuteCpy
    \/ ExecuteInc
    \/ ExecuteDec
    \/ ExecuteJnz
    \/ ExecuteTgl

SpecFrame == InitClone /\ [][NextFrame]_vars

\* The indexes at which the step changes the program.
Rewritten == {i \in 1..Len(operations) : operations'[i] # operations[i]}

LineTgl1 == <<"t", "g", "l", " ", "1">>
\* "jnz 1 99999999999999999999"
LineJnzHuge == <<"j", "n", "z", " ", "1", " ", "9", "9", "9", "9", "9", "9", "9", "9", "9", "9", "9", "9", "9", "9", "9", "9", "9", "9", "9", "9">>

RunLines == {LineCpy2A, LineIncA, LineDecD, LineTgl1, LineJnzAMinus2, LineJnzHuge, LineTglHuge, LineNop}
RunTexts == UNION {[1..n -> RunLines] : n \in 1..MaxLines}

InitRun ==
    /\ text \in RunTexts
    /\ loaded = "unbuilt"
    /\ operations = <<>>
    /\ parsed = <<>>
    /\ toggles = <<>>
    /\ registers = <<>>
    /\ pc = -1
    /\ halt = FALSE
    /\ halted = FALSE
    /\ ctl = "caller"
    /\ result = "none"
    /\ fetched = NotFetched
    /\ steps = 0
    /\ budget = MaxSteps
    /\ reply = NoReply
    /\ other = NoInstance
    /\ active = "source"

NextRun ==
    \/ New
    \/ ExecuteCall
    \/ ExecuteReturn
    \/ ExecuteCpy
    \/ ExecuteInc
    \/ ExecuteDec
    \/ ExecuteJnz
    \/ ExecuteTgl

SpecRun == InitRun /\ [][NextRun]_vars

\* C25: a loaded interpreter always has exactly the registers a, b, c, d, and every
\* register operand of an operation the loop is about to run names one of them.
C25_RegisterSetIsFixed ==
    loaded = "ok"
        => /\ DOMAIN registers = {"a", "b", "c", "d"}
           /\ (ctl = "execute" /\ ~halt /\ pc < Len(operations))
                => /\ CurrentOperation.first.kind = "Register"
                        => CurrentOperation.first.register \in DOMAIN registers
                   /\ CurrentOperation.second.kind = "Register"
                        => CurrentOperation.second.register \in DOMAIN registers

\* ---------------------------------------------------------------- indexes and counters
\* C26: a loop iteration on a tgl either skips, leaving the program as it is, or
\* reads and writes an index inside 0..N-1 and goes on; it never reaches outside the
\* program.
C26_ToggleIndexInsideProgram ==
    [][StepOf("Tgl")
        => \/ /\ TglOutsideSpace(FirstValue, pc, Len(operations))
              /\ operations' = operations
              /\ ctl' = "execute"
           \/ /\ ToggleIndex(FirstValue, pc) \in 0..(Len(operations) - 1)
              /\ ctl' = "execute"]_vars

\* C27: in a taken jnz that stays inside the program, the program counter after the
\* offset is applied is at least 1, so that the subtraction of 1 that follows does
\* not take it below 0, and the loop goes on.
C27_PcNeverUnderflows ==
    [][(/\ StepOf("Jnz")
        /\ FirstValue # 0
        /\ ~JnzLeftOfSpace(SecondValue, pc)
        /\ JumpedPc(SecondValue, pc) < Len(operations))
        => /\ JumpedPc(SecondValue, pc) >= 0
           /\ JumpedPc(SecondValue, pc) - 1 >= 0
           /\ ctl' = "execute"]_vars

\* C28: an execute call on an interpreter that a previous call has left halted does
\* nothing but return: no operation is fetched, and registers, program counter and
\* program stay as they are.
C28_HaltedStaysHalted ==
    [][(is_halted /\ ctl = "execute")
        => /\ ctl' = "caller"
           /\ result' = "Ok"
           /\ steps' = steps
           /\ registers' = registers
           /\ pc' = pc
           /\ operations' = operations]_vars

\* ---------------------------------------------------------------- loops
\* cpy 1 a / jnz a 0
LoopExample == <<Cpy(Value(1), Register("a")), Jnz(Register("a"), Value(0))>>

\* cpy v a / x / jnz a k, with x an operation that leaves register a alone.
LoopBodies ==
    {Inc(Register("b")), Dec(Register("b")), Cpy(Register("a"), Register("b")), Tgl(Value(2))}
LoopPrograms ==
    {<<Cpy(Value(v), Register("a")), x, Jnz(Register("a"), Value(k))>> :
        v \in {-1, 0, 1}, x \in LoopBodies, k \in {-1, 0, 1}}
        \cup {LoopExample}

InitLoop ==
    /\ operations \in LoopPrograms
    /\ parsed = operations
    /\ registers = NewRegisters
    /\ pc = 0
    /\ halt = FALSE
    /\ halted = FALSE
    /\ ctl = "caller"
    /\ result = "none"
    /\ toggles = [i \in 1..Len(operations) |-> 0]
    /\ fetched = NotFetched
    /\ steps = 0
    /\ budget = MaxExampleSteps
    /\ text = <<>>
    /\ loaded = "ok"
    /\ reply = NoReply
    /\ other = NoInstance
    /\ active = "source"

SpecLoop == InitLoop /\ [][NextExamples]_vars

\* The program ends in a jnz on a register that its first operation sets to a value
\* other than 0 and nothing changes afterwards, with an offset that leads back to the
\* jnz itself or to the operation before it.
JumpsBackForever(program) ==
    /\ program[1].first.value # 0
    /\ program[Len(program)].second.value <= 0

\* C29: on such a program execute never returns and never stops by itself: however
\* many iterations have run, the loop is at an operation inside the program with
\* the halt flag down.
C29_LoopNeverReturns ==
    JumpsBackForever(parsed)
        => /\ result # "Ok"
           /\ ctl # "panic"
           /\ ctl = "execute" => (~halt /\ pc < Len(operations))

C29_Witness ==
    /\ parsed = LoopExample
    /\ ctl = "execute"
    /\ steps = budget
    /\ fetched.op.op = "Jnz"
    /\ pc = 1
    /\ registers["a"] = 1

\* ---------------------------------------------------------------- straight-line programs
\* The loadable programs without jnz and tgl.
StraightOperations == {o \in LoadableOperations : o.op \in {"Cpy", "Inc", "Dec"}}
StraightPrograms == UNION {[1..n -> StraightOperations] : n \in 1..MaxLen}

InitStraight ==
    /\ operations \in StraightPrograms
    /\ parsed = operations
    /\ registers = NewRegisters
    /\ pc = 0
    /\ halt = FALSE
    /\ halted = FALSE
    /\ ctl = "caller"
    /\ result = "none"
    /\ toggles = [i \in 1..Len(operations) |-> 0]
    /\ fetched = NotFetched
    /\ steps = 0
    /\ budget = MaxSteps
    /\ text = <<>>
    /\ loaded = "ok"
    /\ reply = NoReply
    /\ other = NoInstance
    /\ active = "source"

\* One iteration of the loop of execute, whichever it is.
LoopStep ==
    \/ ExecuteReturn
    \/ ExecuteCpy
    \/ ExecuteInc
    \/ ExecuteDec

NextStraight ==
    \/ PresetRegister
    \/ ExecuteCall
    \/ LoopStep

\* execute is synchronous code on one thread: once called, the loop keeps taking
\* its next iteration.
SpecStraight == InitStraight /\ [][NextStraight]_vars /\ WF_vars(LoopStep)

\* C30: on a program of N operations without jnz and tgl, a call of execute returns;
\* the i-th iteration of the loop runs the operation at index i - 1, and on return
\* N iterations have run and the program counter is N.
C30_StraightLineRunsOnce ==
    /\ (ctl = "execute") ~> (ctl = "caller" /\ result = "Ok")
    /\ [][steps' = steps + 1 => fetched'.pc = steps]_vars
    /\ [](result = "Ok" => (pc = Len(operations) /\ steps = Len(operations)))

C30_Witness ==
    /\ ctl = "caller"
    /\ result = "Ok"
    /\ Len(operations) = 3
    /\ pc = 3
    /\ steps = 3
    /\ fetched = [pc |-> 2, op |-> Dec(Register("a"))]
    /\ registers["a"] = 1

====
